---- MODULE Spec2Model ----
(***************************************************************************)
(* State machines of four components of the repository.  The first and    *)
(* largest is VariablesEditView, the dashboard template-variable list      *)
(* editor (src/public/app/features/auth-config/fields.tsx, 436-614).       *)
(* The collection is the `variables` array of the dashboard's variable     *)
(* set; the edit session is the view's own state (editIndex and            *)
(* originalVariableState).  Every handler of the class is one action; the  *)
(* handlers are public members and Spec lets them run in any order.        *)
(* SpecList runs the three list handlers alone, on longer collections.     *)
(* Indices are 0-based as in the source; At and Slice translate them to    *)
(* TLA+ sequences.                                                         *)
(* The other three are the refresh button of AlertManagerManualRouting     *)
(* (SpecRouting), the ReturnToPrevious widget (SpecReturn) and             *)
(* APIServerOptions.loadAPIGroupBuilders (SpecOptions).  Each              *)
(* specification runs one component and leaves the others as constructed.  *)
(***************************************************************************)
EXTENDS Integers, Sequences, FiniteSets, TLC

VARIABLES
    variables,              \* getVariableSet().state.variables
    editIndex,              \* this.state.editIndex: <<>> (undefined) or <<i>>
    originalVariableState,  \* this.state.originalVariableState: <<>> or <<state>>
    console,                \* what the handler wrote with console.error, "" if nothing
    lastOp,                 \* history: the handler that ran last (and, for onEdit
                            \* and onDiscardChanges, the sinceEdit it was called in)
    sinceEdit,              \* history: what ran since the onEdit that opened the session
    \* AlertManagerManualRouting (AlertManagerRouting.tsx)
    loadingContactPoints,   \* the useState flag of line 36
    refreshes,              \* the refreshes started, oldest first: when each was clicked,
                            \* its fetch, its sleep timer and whether its finally has run
    now,                    \* the time in ms
    \* ReturnToPrevious (unnamed/part_002)
    returnToPrevious,       \* chrome's state: <<>> (cleared) or <<[href, title]>>
    history,                \* the locations pushed to locationService, oldest first
    handlerAt,              \* <<>>, or <<href>> while handleOnClick is between its
                            \* two statements
    serviceCalls,           \* history: the calls the last handler made, in order
    \* APIServerOptions.loadAPIGroupBuilders (unnamed/part_001)
    args,                   \* the argument of the call
    builders,               \* o.builders
    installed,              \* history: the builders InstallSchema succeeded on
    loadAt,                 \* where the call stands: the loop it is in and the index
    returned                \* what the call returned, <<>> while it runs

viewVars == <<variables, editIndex, originalVariableState, console, lastOp, sinceEdit>>

routingVars == <<loadingContactPoints, refreshes, now>>

returnVars == <<returnToPrevious, history, handlerAt, serviceCalls>>

optionsVars == <<args, builders, installed, loadAt, returned>>

vars == <<viewVars, routingVars, returnVars, optionsVars>>

-----------------------------------------------------------------------------
(* Bounds *)

\* Spec, every handler: onDuplicated is taken while the collection is shorter
\* than MaxLen and the derived name no longer than MaxNameLen
MaxLen == 2
MaxNameLen == 9
MaxInitLen == 1

\* SpecList, the list handlers alone, on longer collections and names
MaxListLen == 4
MaxListNameLen == 13
MaxListInitLen == 2

-----------------------------------------------------------------------------
(* Values *)

Undefined == <<>>
Some(x) == <<x>>
IsDefined(o) == o # Undefined
Get(o) == o[1]

NoLabel == "undefined"

VariableNotFound == "Variable not found"
InvalidIndex == "Invalid index"

\* kinds accepted by getVariableScene (EditableVariableType)
EditableVariableTypes == {"query", "textbox", "adhoc"}

\* a kind of SceneVariableState.type that is not editable
SystemType == "system"

isEditableVariableType(type) == type \in EditableVariableTypes

\* the configuration a freshly constructed variable of a kind has
DefaultConfig(type) == "default_" \o type

UserConfig == "user"

\* what getVariableScene returns is an AdHocFilterSet for the ad-hoc kind,
\* a SceneVariable for the others
ClassOf(type) == IF type = "adhoc" THEN "AdHocFilterSet" ELSE "SceneVariable"

\* getVariableScene(type, initialState): a new object of the kind's class whose
\* state is the kind's defaults overridden by the fields initialState has
getVariableScene(type, initialState) ==
    [ cls   |-> ClassOf(type),
      state |-> [ name   |-> initialState.name,
                  label  |-> initialState.label,
                  type   |-> IF "type" \in DOMAIN initialState
                             THEN initialState.type ELSE type,
                  config |-> IF "config" \in DOMAIN initialState
                             THEN initialState.config ELSE DefaultConfig(type) ] ]

\* newVariable instanceof AdHocFilterSet
isAdHocFilterSet(obj) == obj.cls = "AdHocFilterSet"

\* SceneVariableState
VariableState(name, label, type, config) ==
    [name |-> name, label |-> label, type |-> type, config |-> config]

\* a SceneVariable of the collection
SceneVariable(state) == [cls |-> "SceneVariable", state |-> state]

-----------------------------------------------------------------------------
(* Array helpers, 0-based as in the source *)

At(arr, i) == arr[i + 1]

HasIndex(arr, i) == i >= 0 /\ i < Len(arr)

\* arr.slice(from, to)
Slice(arr, from, to) == SubSeq(arr, from + 1, to)

\* arr.slice(from)
SliceFrom(arr, from) == SubSeq(arr, from + 1, Len(arr))

Names(arr) == {arr[i].state.name : i \in DOMAIN arr}

Min(S) == CHOOSE x \in S : \A y \in S : x <= y

\* a findIndex that falls back to the last position when nothing matches
getVariableIndexLast(arr, identifier) ==
    IF identifier \in Names(arr)
    THEN Min({i \in 0..(Len(arr) - 1) : At(arr, i).state.name = identifier})
    ELSE Len(arr) - 1

\* variables.findIndex((variable) => variable.state.name === identifier)
getVariableIndex(arr, identifier) ==
    IF identifier \in Names(arr)
    THEN Min({i \in 0..(Len(arr) - 1) : At(arr, i).state.name = identifier})
    ELSE -1

-----------------------------------------------------------------------------
(* History bookkeeping shared by the handlers *)

\* sinceEdit is "none" while editIndex is undefined; in a session it tells
\* whether nothing, only onTypeChange calls, or something else ran since onEdit
Disturbed(since) == IF since = "none" THEN "none" ELSE "other"

TypeChanged(since) == IF since = "nothing" THEN "typeChange" ELSE since

Ran(op) == [op |-> op, since |-> "-"]

-----------------------------------------------------------------------------
(* onDelete, lines 489-504 *)

\* [...variables.slice(0, variableIndex), ...variables.slice(variableIndex + 1)]
deletedVariables(arr, variableIndex) ==
    Slice(arr, 0, variableIndex) \o SliceFrom(arr, variableIndex + 1)

\* an onDelete that also closes the edit session
onDeleteEndsSession(identifier) ==
    LET variableIndex == getVariableIndex(variables, identifier) IN
    /\ IF variableIndex = -1
       THEN /\ console' = VariableNotFound
            /\ UNCHANGED <<variables, editIndex, originalVariableState>>
            /\ sinceEdit' = Disturbed(sinceEdit)
       ELSE /\ console' = ""
            /\ variables' = deletedVariables(variables, variableIndex)
            /\ editIndex' = Undefined
            /\ originalVariableState' = Undefined
            /\ sinceEdit' = "none"
    /\ lastOp' = Ran("onDelete")

onDelete(identifier) ==
    LET variableIndex == getVariableIndex(variables, identifier) IN
    /\ IF variableIndex = -1
       THEN /\ console' = VariableNotFound
            /\ variables' = variables
       ELSE /\ console' = ""
            /\ variables' = deletedVariables(variables, variableIndex)
    /\ UNCHANGED <<editIndex, originalVariableState>>
    /\ sinceEdit' = Disturbed(sinceEdit)
    /\ lastOp' = Ran("onDelete")

-----------------------------------------------------------------------------
(* onDuplicated, lines 510-542 *)

\* a loop body that rebuilds the name without the counter
copyNameUnnumbered(name, copyNumber) == "copy_of_" \o name

\* a copy counter whose first number is 2
copyNameFromTwo(name, copyNumber) ==
    IF copyNumber = 0
    THEN "copy_of_" \o name
    ELSE "copy_of_" \o name \o "_" \o ToString(copyNumber + 1)

\* `copy_of_${name}` while copyNumber is 0, `copy_of_${name}_${copyNumber}` after
copyName(name, copyNumber) ==
    IF copyNumber = 0
    THEN "copy_of_" \o name
    ELSE "copy_of_" \o name \o "_" \o ToString(copyNumber)

\* the while loop of lines 524-527, entered with the given copyNumber
RECURSIVE newNameFrom(_, _, _)
newNameFrom(arr, name, copyNumber) ==
    IF copyName(name, copyNumber) \in Names(arr)
    THEN newNameFrom(arr, name, copyNumber + 1)
    ELSE copyName(name, copyNumber)

newName(arr, name) == newNameFrom(arr, name, 0)

\* the copyNumber the loop of lines 524-527 is left with when entered with the
\* given one; a loop still running past Len(arr) increments is followed no further
RECURSIVE copyNumberFrom(_, _, _)
copyNumberFrom(arr, name, copyNumber) ==
    IF copyNumber > Len(arr)
    THEN copyNumber
    ELSE IF copyName(name, copyNumber) \in Names(arr)
         THEN copyNumberFrom(arr, name, copyNumber + 1)
         ELSE copyNumber

\* originalVariable.clone(originalVariable.state) then setState({ name: newName })
clonedVariable(originalVariable, name) == [originalVariable EXCEPT !.state.name = name]

\* a clone that is the original object itself: setState({ name }) renames both
duplicatedVariablesAliased(arr, variableIndex, newVariable) ==
    Slice(arr, 0, variableIndex) \o <<newVariable, newVariable>>
        \o SliceFrom(arr, variableIndex + 1)

\* the clone spliced in at variableIndex, before the original
duplicatedVariablesBefore(arr, variableIndex, newVariable) ==
    Slice(arr, 0, variableIndex) \o <<newVariable>> \o SliceFrom(arr, variableIndex)

\* [...slice(0, variableIndex + 1), newVariable, ...slice(variableIndex + 1)]
duplicatedVariables(arr, variableIndex, newVariable) ==
    Slice(arr, 0, variableIndex + 1) \o <<newVariable>> \o SliceFrom(arr, variableIndex + 1)

onDuplicated(identifier) ==
    LET variableIndex == getVariableIndex(variables, identifier) IN
    /\ IF variableIndex = -1
       THEN /\ console' = VariableNotFound
            /\ variables' = variables
       ELSE LET originalVariable == At(variables, variableIndex)
                name == newName(variables, originalVariable.state.name)
            IN /\ console' = ""
               /\ variables' = duplicatedVariables(variables, variableIndex,
                                                   clonedVariable(originalVariable, name))
    /\ UNCHANGED <<editIndex, originalVariableState>>
    /\ sinceEdit' = Disturbed(sinceEdit)
    /\ lastOp' = Ran("onDuplicated")

-----------------------------------------------------------------------------
(* onOrderChanged, lines 544-560 *)

\* the two splices in the other order: insert at toIndex, then remove at fromIndex
orderChangedVariablesInsertFirst(arr, fromIndex, toIndex) ==
    LET movedItem == At(arr, fromIndex)
        inserted == Slice(arr, 0, toIndex) \o <<movedItem>> \o SliceFrom(arr, toIndex)
    IN Slice(inserted, 0, fromIndex) \o SliceFrom(inserted, fromIndex + 1)

\* updatedVariables.splice(fromIndex, 1) then splice(toIndex, 0, movedItem[0])
orderChangedVariables(arr, fromIndex, toIndex) ==
    LET movedItem == At(arr, fromIndex)
        removed == Slice(arr, 0, fromIndex) \o SliceFrom(arr, fromIndex + 1)
    IN Slice(removed, 0, toIndex) \o <<movedItem>> \o SliceFrom(removed, toIndex)

\* the guard of line 550
invalidIndex(arr, fromIndex, toIndex) ==
    fromIndex < 0 \/ fromIndex >= Len(arr) \/ toIndex < 0 \/ toIndex >= Len(arr)

\* a handler that clamps an index out of range into the collection
onOrderChangedClamped(fromIndex, toIndex) ==
    LET clamp(i) == IF i < 0 THEN 0 ELSE IF i >= Len(variables) THEN Len(variables) - 1 ELSE i IN
    /\ IF variables = <<>>
       THEN /\ console' = InvalidIndex
            /\ variables' = variables
       ELSE /\ console' = ""
            /\ variables' = orderChangedVariables(variables, clamp(fromIndex), clamp(toIndex))
    /\ UNCHANGED <<editIndex, originalVariableState>>
    /\ sinceEdit' = Disturbed(sinceEdit)
    /\ lastOp' = Ran("onOrderChanged")

onOrderChanged(fromIndex, toIndex) ==
    /\ IF invalidIndex(variables, fromIndex, toIndex)
       THEN /\ console' = InvalidIndex
            /\ variables' = variables
       ELSE /\ console' = ""
            /\ variables' = orderChangedVariables(variables, fromIndex, toIndex)
    /\ UNCHANGED <<editIndex, originalVariableState>>
    /\ sinceEdit' = Disturbed(sinceEdit)
    /\ lastOp' = Ran("onOrderChanged")

-----------------------------------------------------------------------------
(* onEdit, lines 562-569 *)

\* a snapshot of the fields onTypeChange carries over, and the type
stateCopyPartial(variable) ==
    [name |-> variable.state.name, label |-> variable.state.label,
     type |-> variable.state.type]

\* { ...this.getVariables()[variableIndex].state }
stateCopy(variable) == variable.state

\* an onEdit that opens a session only when none is open
onEditWhenIdle(identifier) ==
    LET variableIndex == getVariableIndex(variables, identifier) IN
    /\ IF variableIndex = -1
       THEN /\ console' = VariableNotFound
            /\ UNCHANGED <<editIndex, originalVariableState>>
            /\ sinceEdit' = Disturbed(sinceEdit)
       ELSE IF IsDefined(editIndex)
       THEN /\ console' = ""
            /\ UNCHANGED <<editIndex, originalVariableState>>
            /\ sinceEdit' = Disturbed(sinceEdit)
       ELSE /\ console' = ""
            /\ editIndex' = Some(variableIndex)
            /\ originalVariableState' = Some(stateCopy(At(variables, variableIndex)))
            /\ sinceEdit' = "nothing"
    /\ UNCHANGED variables
    /\ lastOp' = [op |-> "onEdit", since |-> sinceEdit]

onEdit(identifier) ==
    LET variableIndex == getVariableIndex(variables, identifier) IN
    /\ IF variableIndex = -1
       THEN /\ console' = VariableNotFound
            /\ UNCHANGED <<editIndex, originalVariableState>>
            /\ sinceEdit' = Disturbed(sinceEdit)
       ELSE /\ console' = ""
            /\ editIndex' = Some(variableIndex)
            /\ originalVariableState' = Some(stateCopy(At(variables, variableIndex)))
            /\ sinceEdit' = "nothing"
    /\ UNCHANGED variables
    /\ lastOp' = [op |-> "onEdit", since |-> sinceEdit]

-----------------------------------------------------------------------------
(* onTypeChange and replaceEditVariable, lines 463-487 and 571-586 *)

\* this.state.editIndex ?? 0
indexOrZero(index) == IF IsDefined(index) THEN Get(index) ELSE 0

\* this.state.editIndex ?? -1
indexOrMinusOne(index) == IF IsDefined(index) THEN Get(index) ELSE -1

\* [...slice(0, variableIndex), newVariable, ...slice(variableIndex + 1)]
replacedVariables(arr, variableIndex, newVariable) ==
    Slice(arr, 0, variableIndex) \o <<newVariable>> \o SliceFrom(arr, variableIndex + 1)

\* a replaceEditVariable without the instanceof AdHocFilterSet branch
replaceEditVariableAnyClass(arr, variableIndex, newVariable) ==
    replacedVariables(arr, variableIndex, newVariable)

\* the collection replaceEditVariable leaves; its caller has found variables[editIndex]
replaceEditVariable(arr, variableIndex, newVariable) ==
    IF isAdHocFilterSet(newVariable)
    THEN arr
    ELSE replacedVariables(arr, variableIndex, newVariable)

\* const { name, label } = variable.state; getVariableScene(type, { name, label })
typeChangedVariable(variable, type) ==
    getVariableScene(type, [name |-> variable.state.name, label |-> variable.state.label])

onTypeChange(type) ==
    LET variableIndex == indexOrMinusOne(editIndex) IN
    /\ IF ~HasIndex(variables, variableIndex)
       THEN /\ console' = VariableNotFound
            /\ variables' = variables
       ELSE /\ console' = ""
            /\ variables' = replaceEditVariable(variables, variableIndex,
                                typeChangedVariable(At(variables, variableIndex), type))
    /\ UNCHANGED <<editIndex, originalVariableState>>
    /\ sinceEdit' = TypeChanged(sinceEdit)
    /\ lastOp' = Ran("onTypeChange")

-----------------------------------------------------------------------------
(* onGoBack, lines 588-590 *)

\* a way back that puts the snapshot in place again, as a cancel would
onGoBackRestores ==
    /\ variables' =
          IF /\ IsDefined(editIndex)
             /\ IsDefined(originalVariableState)
             /\ HasIndex(variables, indexOrMinusOne(editIndex))
          THEN replacedVariables(variables, Get(editIndex),
                   SceneVariable(Get(originalVariableState)))
          ELSE variables
    /\ editIndex' = Undefined
    /\ console' = ""
    /\ sinceEdit' = "none"
    /\ UNCHANGED originalVariableState
    /\ lastOp' = Ran("onGoBack")

\* a way back that leaves the editor without clearing editIndex
onGoBackKeepsSession ==
    /\ console' = ""
    /\ UNCHANGED <<variables, editIndex, originalVariableState, sinceEdit>>
    /\ lastOp' = Ran("onGoBack")

onGoBack ==
    /\ editIndex' = Undefined
    /\ console' = ""
    /\ sinceEdit' = "none"
    /\ UNCHANGED <<variables, originalVariableState>>
    /\ lastOp' = Ran("onGoBack")

-----------------------------------------------------------------------------
(* onDiscardChanges, lines 592-613 *)

\* the early returns of lines 595-601
discardReturnsEarly(arr, index, original) ==
    \/ ~IsDefined(index)
    \/ ~IsDefined(original)
    \/ ~HasIndex(arr, Get(index))

\* a restoration that passes getVariableScene the name and label alone
discardedVariablesNameLabel(arr, index, original) ==
    IF isEditableVariableType(original.type)
    THEN LET newVariable == getVariableScene(original.type,
                                [name |-> original.name, label |-> original.label]) IN
         IF isAdHocFilterSet(newVariable)
         THEN arr
         ELSE replacedVariables(arr, index, newVariable)
    ELSE arr

\* lines 602-610: the collection after the restoration
discardedVariables(arr, index, original) ==
    IF isEditableVariableType(original.type)
    THEN LET newVariable == getVariableScene(original.type, original) IN
         IF isAdHocFilterSet(newVariable)
         THEN arr
         ELSE replacedVariables(arr, index, newVariable)
    ELSE arr

onDiscardChanges ==
    /\ IF discardReturnsEarly(variables, editIndex, originalVariableState)
       THEN /\ UNCHANGED <<variables, editIndex, originalVariableState>>
            /\ sinceEdit' = Disturbed(sinceEdit)
       ELSE /\ variables' = discardedVariables(variables, Get(editIndex),
                                               Get(originalVariableState))
            /\ editIndex' = Undefined
            /\ originalVariableState' = Undefined
            /\ sinceEdit' = "none"
    /\ console' = ""
    /\ lastOp' = [op |-> "onDiscardChanges", since |-> sinceEdit]

-----------------------------------------------------------------------------
(* The view after construction, and its handlers *)

\* the variables a dashboard is loaded with are drawn from these
InitialVariables ==
    { SceneVariable(VariableState("a", "A", "query", UserConfig)),
      SceneVariable(VariableState("f", "F", "adhoc", UserConfig)),
      SceneVariable(VariableState("s", NoLabel, SystemType, UserConfig)) }

\* names a caller may still hold after the variable is gone, and one never used
OtherNames == {"a", "missing"}

\* the sequences of pairwise distinct elements of S, up to length n
RECURSIVE DistinctSeqs(_, _)
DistinctSeqs(S, n) ==
    IF n = 0 THEN {<<>>}
    ELSE LET shorter == DistinctSeqs(S, n - 1) IN
         shorter \cup
         UNION { { Append(q, v) : v \in S \ {q[i] : i \in DOMAIN q} } :
                 q \in {r \in shorter : Len(r) = n - 1} }

\* AlertManagerManualRouting as mounted: useState(false), nothing clicked
routingMounted ==
    /\ loadingContactPoints = FALSE
    /\ refreshes = <<>>
    /\ now = 0

\* no ReturnToPrevious on the page: chrome holds no return-to-previous state
returnUnmounted ==
    /\ returnToPrevious = Undefined
    /\ history = <<>>
    /\ handlerAt = Undefined
    /\ serviceCalls = <<>>

\* newAPIServerOptions: builders is nil, nothing was loaded
newAPIServerOptions ==
    /\ args = <<>>
    /\ builders = <<>>
    /\ installed = <<>>
    /\ loadAt = [phase |-> "idle", i |-> 0]
    /\ returned = Undefined

InitSession ==
    /\ editIndex = Undefined
    /\ originalVariableState = Undefined
    /\ console = ""
    /\ lastOp = Ran("init")
    /\ sinceEdit = "none"

Init ==
    /\ variables \in DistinctSeqs(InitialVariables, MaxInitLen)
    /\ InitSession
    /\ routingMounted
    /\ returnUnmounted
    /\ newAPIServerOptions

\* the names a handler is called with: those on display, and some that may not be
Identifiers == Names(variables) \cup OtherNames

\* the indices a drag can report: those of the collection, one below, one above
Indices == -1..Len(variables)

\* the kinds the type picker is given
TypeInputs == {"textbox", "adhoc"}

\* onDuplicated within the bounds: the collection and the names stay finite
WithinBounds(identifier, maxLen, maxNameLen) ==
    identifier \in Names(variables) =>
        /\ Len(variables) < maxLen
        /\ Len(newName(variables, identifier)) <= maxNameLen

\* the handlers of the view touch nothing of the other components
outsideView == <<routingVars, returnVars, optionsVars>>

Next ==
    \/ \E identifier \in Identifiers : onDelete(identifier) /\ UNCHANGED outsideView
    \/ \E identifier \in Identifiers :
          /\ WithinBounds(identifier, MaxLen, MaxNameLen)
          /\ onDuplicated(identifier)
          /\ UNCHANGED outsideView
    \/ \E fromIndex \in Indices, toIndex \in Indices :
          onOrderChanged(fromIndex, toIndex) /\ UNCHANGED outsideView
    \/ \E identifier \in Identifiers : onEdit(identifier) /\ UNCHANGED outsideView
    \/ \E type \in TypeInputs : onTypeChange(type) /\ UNCHANGED outsideView
    \/ onGoBack /\ UNCHANGED outsideView
    \/ onDiscardChanges /\ UNCHANGED outsideView

Spec == Init /\ [][Next]_vars

-----------------------------------------------------------------------------
(* The list handlers alone: no edit session is ever opened *)

InitialListVariables ==
    { SceneVariable(VariableState("a", "A", "query", UserConfig)),
      SceneVariable(VariableState("a_1", NoLabel, "textbox", DefaultConfig("textbox"))),
      SceneVariable(VariableState("copy_of_a", "C", "adhoc", UserConfig)) }

InitList ==
    /\ variables \in DistinctSeqs(InitialListVariables, MaxListInitLen)
    /\ InitSession
    /\ routingMounted
    /\ returnUnmounted
    /\ newAPIServerOptions

NextList ==
    \/ \E identifier \in Identifiers : onDelete(identifier) /\ UNCHANGED outsideView
    \/ \E identifier \in Identifiers :
          /\ WithinBounds(identifier, MaxListLen, MaxListNameLen)
          /\ onDuplicated(identifier)
          /\ UNCHANGED outsideView
    \/ \E fromIndex \in Indices, toIndex \in Indices :
          onOrderChanged(fromIndex, toIndex) /\ UNCHANGED outsideView

SpecList == InitList /\ [][NextList]_vars

-----------------------------------------------------------------------------
(* AlertManagerManualRouting: the refresh button of the contact points,    *)
(* AlertManagerRouting.tsx lines 21-45                                     *)

LOADING_SPINNER_DURATION == 1000

\* the clock of the model advances by a TicksPerDuration-th of the spinner's
\* duration, MaxTicks times at most; MaxRefreshes clicks are followed
TicksPerDuration == 2
MaxTicks == 4
MaxRefreshes == 2

TimeStep == LOADING_SPINNER_DURATION \div TicksPerDuration

\* one click: the two promises handed to Promise.all, and the finally callback
Refresh(clickedAt) ==
    [clickedAt |-> clickedAt, fetch |-> "pending", sleep |-> "pending", finallyRan |-> FALSE]

\* Promise.all([fetch, sleep]) is settled: it rejects with the first rejection
\* and is fulfilled when both are (sleep never rejects)
promiseAllSettled(r) ==
    \/ r.fetch = "rejected"
    \/ r.fetch = "fulfilled" /\ r.sleep = "fulfilled"

\* in flight: clicked, and its Promise.all not settled yet
inFlight(r) == ~promiseAllSettled(r)

\* callbacks of settled promises run before the next click, timer or response
microtasksDone == \A i \in DOMAIN refreshes :
                      promiseAllSettled(refreshes[i]) => refreshes[i].finallyRan

\* lines 40-42: the flag is set, refetchReceivers() and sleep() are started
onClickRefresh ==
    /\ microtasksDone
    /\ Len(refreshes) < MaxRefreshes
    /\ loadingContactPoints' = TRUE
    /\ refreshes' = Append(refreshes, Refresh(now))
    /\ now' = now

\* the promise refetchReceivers() returned is fulfilled or rejected
refetchReceiversSettles(i, outcome) ==
    /\ microtasksDone
    /\ refreshes[i].fetch = "pending"
    /\ refreshes' = [refreshes EXCEPT ![i].fetch = outcome]
    /\ UNCHANGED <<loadingContactPoints, now>>

\* line 38: setTimeout(resolve, ms) fires, not before ms have passed and not
\* before the timers set earlier
sleepResolves(i) ==
    /\ microtasksDone
    /\ refreshes[i].sleep = "pending"
    /\ now >= refreshes[i].clickedAt + LOADING_SPINNER_DURATION
    /\ \A j \in 1..(i - 1) : refreshes[j].sleep = "fulfilled"
    /\ refreshes' = [refreshes EXCEPT ![i].sleep = "fulfilled"]
    /\ UNCHANGED <<loadingContactPoints, now>>

\* lines 42-44: the finally callback of a settled Promise.all
finallyRuns(i) ==
    /\ promiseAllSettled(refreshes[i])
    /\ ~refreshes[i].finallyRan
    /\ loadingContactPoints' = FALSE
    /\ refreshes' = [refreshes EXCEPT ![i].finallyRan = TRUE]
    /\ now' = now

timePasses ==
    /\ microtasksDone
    /\ now < MaxTicks * TimeStep
    /\ now' = now + TimeStep
    /\ UNCHANGED <<loadingContactPoints, refreshes>>

\* a dashboard without variables, no edit session
viewIdle ==
    /\ variables = <<>>
    /\ InitSession

InitRouting ==
    /\ routingMounted
    /\ viewIdle
    /\ returnUnmounted
    /\ newAPIServerOptions

outsideRouting == <<viewVars, returnVars, optionsVars>>

FetchOutcomes == {"fulfilled", "rejected"}

NextRouting ==
    \/ onClickRefresh /\ UNCHANGED outsideRouting
    \/ \E i \in DOMAIN refreshes, outcome \in FetchOutcomes :
          refetchReceiversSettles(i, outcome) /\ UNCHANGED outsideRouting
    \/ \E i \in DOMAIN refreshes : sleepResolves(i) /\ UNCHANGED outsideRouting
    \/ \E i \in DOMAIN refreshes : finallyRuns(i) /\ UNCHANGED outsideRouting
    \/ timePasses /\ UNCHANGED outsideRouting

SpecRouting == InitRouting /\ [][NextRouting]_vars

-----------------------------------------------------------------------------
(* ReturnToPrevious, unnamed/part_002 lines 12-37                          *)

\* locationService.push is followed while the history is shorter than this
MaxHistory == 4

Hrefs == {"/d/abc", "/alerting/list"}

Titles == {"Dashboard", "Alert rules"}

\* ReturnToPreviousProps
ReturnToPreviousProps(href, title) == [href |-> href, title |-> title]

\* the calls a handler makes
PushCall(href) == [service |-> "locationService.push", href |-> href]

ClearCall == [service |-> "chrome.clearReturnToPrevious", href |-> ""]

\* the page renders the widget with the return-to-previous state chrome holds
render(href, title) ==
    /\ handlerAt = Undefined
    /\ returnToPrevious' = Some(ReturnToPreviousProps(href, title))
    /\ serviceCalls' = <<>>
    /\ UNCHANGED <<history, handlerAt>>

\* a click handler that clears first and navigates after
handleOnClickClearsFirst ==
    \/ /\ handlerAt = Undefined
       /\ IsDefined(returnToPrevious)
       /\ Len(history) < MaxHistory
       /\ returnToPrevious' = Undefined
       /\ handlerAt' = Some(Get(returnToPrevious).href)
       /\ serviceCalls' = <<ClearCall>>
       /\ UNCHANGED history
    \/ /\ IsDefined(handlerAt)
       /\ history' = Append(history, Get(handlerAt))
       /\ handlerAt' = Undefined
       /\ serviceCalls' = Append(serviceCalls, PushCall(Get(handlerAt)))
       /\ UNCHANGED returnToPrevious

\* lines 20-23, one statement at a time: handlerAt holds the href of the handler
\* that has run line 21 and not yet line 22
handleOnClick ==
    \/ /\ handlerAt = Undefined
       /\ IsDefined(returnToPrevious)
       /\ Len(history) < MaxHistory
       /\ history' = Append(history, Get(returnToPrevious).href)
       /\ handlerAt' = Some(Get(returnToPrevious).href)
       /\ serviceCalls' = <<PushCall(Get(returnToPrevious).href)>>
       /\ UNCHANGED returnToPrevious
    \/ /\ IsDefined(handlerAt)
       /\ returnToPrevious' = Undefined
       /\ handlerAt' = Undefined
       /\ serviceCalls' = Append(serviceCalls, ClearCall)
       /\ UNCHANGED history

\* lines 24-26
handleOnDismiss ==
    /\ handlerAt = Undefined
    /\ IsDefined(returnToPrevious)
    /\ returnToPrevious' = Undefined
    /\ serviceCalls' = <<ClearCall>>
    /\ UNCHANGED <<history, handlerAt>>

InitReturn ==
    /\ returnToPrevious \in {Some(ReturnToPreviousProps(href, title)) :
                                href \in Hrefs, title \in Titles}
    /\ history = <<>>
    /\ handlerAt = Undefined
    /\ serviceCalls = <<>>
    /\ viewIdle
    /\ routingMounted
    /\ newAPIServerOptions

outsideReturn == <<viewVars, routingVars, optionsVars>>

NextReturn ==
    \/ \E href \in Hrefs, title \in Titles : render(href, title) /\ UNCHANGED outsideReturn
    \/ handleOnClick /\ UNCHANGED outsideReturn
    \/ handleOnDismiss /\ UNCHANGED outsideReturn

SpecReturn == InitReturn /\ [][NextReturn]_vars

-----------------------------------------------------------------------------
(* APIServerOptions.loadAPIGroupBuilders, unnamed/part_001 lines 197-229   *)

\* the calls followed have MaxArgs arguments at most
MaxArgs == 3

\* the cases of the switch of lines 200-215
KnownGroups == {"example.grafana.app", "featuretoggle.grafana.app",
                "testdata.datasource.grafana.app"}

\* a group name that is no case of the switch
UnknownGroup == "unknown.grafana.app"

\* what the call returns: nil, or one of its errors
Nil == "nil"

UnknownGroupError(g) == "unknown group: " \o g

NoGroupsError == "expected group name(s) in the command line arguments"

\* the errors of the calls into other packages
InitializeError == "InitializeDataSourceAPIServer: error"

InstallSchemaError == "InstallSchema: error"

\* the builder a case of the switch appends
Builder(g) ==
    [ group |-> g,
      from  |-> IF g = "example.grafana.app" THEN "example.NewTestingAPIBuilder"
                ELSE IF g = "featuretoggle.grafana.app"
                     THEN "featuretoggle.NewFeatureFlagAPIBuilder"
                     ELSE "server.InitializeDataSourceAPIServer" ]

Stands(phase, i) == [phase |-> phase, i |-> i]

\* the sequences over S of length n at most
RECURSIVE SeqsUpTo(_, _)
SeqsUpTo(S, n) ==
    IF n = 0 THEN {<<>>}
    ELSE LET shorter == SeqsUpTo(S, n - 1) IN
         shorter \cup { Append(q, v) : q \in shorter, v \in S }

\* return err
returns(err) ==
    /\ returned' = Some(err)
    /\ loadAt' = Stands("returned", 0)

\* the call and line 198
loadAPIGroupBuilders(a) ==
    /\ loadAt.phase \in {"idle", "returned"}
    /\ args' = a
    /\ builders' = <<>>
    /\ installed' = <<>>
    /\ loadAt' = Stands("range", 1)
    /\ returned' = Undefined

\* a loop that passes over the group names it does not know
rangeArgsSkipsUnknown ==
    /\ loadAt.phase = "range"
    /\ IF loadAt.i > Len(args)
       THEN /\ loadAt' = Stands("check", 0)
            /\ UNCHANGED <<builders, returned>>
       ELSE LET g == args[loadAt.i] IN
            /\ builders' = IF g \in KnownGroups THEN Append(builders, Builder(g))
                           ELSE builders
            /\ loadAt' = Stands("range", loadAt.i + 1)
            /\ UNCHANGED returned
    /\ UNCHANGED <<args, installed>>

\* lines 199-216, one iteration a step
rangeArgs ==
    /\ loadAt.phase = "range"
    /\ IF loadAt.i > Len(args)
       THEN /\ loadAt' = Stands("check", 0)
            /\ UNCHANGED <<builders, returned>>
       ELSE LET g == args[loadAt.i] IN
            IF g \in {"example.grafana.app", "featuretoggle.grafana.app"}
            THEN /\ builders' = Append(builders, Builder(g))
                 /\ loadAt' = Stands("range", loadAt.i + 1)
                 /\ UNCHANGED returned
            ELSE IF g = "testdata.datasource.grafana.app"
            THEN \/ /\ returns(InitializeError)
                    /\ UNCHANGED builders
                 \/ /\ builders' = Append(builders, Builder(g))
                    /\ loadAt' = Stands("range", loadAt.i + 1)
                    /\ UNCHANGED returned
            ELSE /\ returns(UnknownGroupError(g))
                 /\ UNCHANGED builders
    /\ UNCHANGED <<args, installed>>

\* lines 218-220
checkBuilders ==
    /\ loadAt.phase = "check"
    /\ IF Len(builders) < 1
       THEN returns(NoGroupsError)
       ELSE /\ loadAt' = Stands("install", 1)
            /\ UNCHANGED returned
    /\ UNCHANGED <<args, builders, installed>>

\* lines 223-228, one iteration a step: InstallSchema succeeds or returns an error
installSchemas ==
    /\ loadAt.phase = "install"
    /\ IF loadAt.i > Len(builders)
       THEN /\ returns(Nil)
            /\ UNCHANGED installed
       ELSE \/ /\ returns(InstallSchemaError)
               /\ UNCHANGED installed
            \/ /\ installed' = Append(installed, builders[loadAt.i])
               /\ loadAt' = Stands("install", loadAt.i + 1)
               /\ UNCHANGED returned
    /\ UNCHANGED <<args, builders>>

InitOptions ==
    /\ newAPIServerOptions
    /\ viewIdle
    /\ routingMounted
    /\ returnUnmounted

outsideOptions == <<viewVars, routingVars, returnVars>>

\* the command lines the server is started with
ArgsInputs == SeqsUpTo(KnownGroups \cup {UnknownGroup}, MaxArgs)

NextOptions ==
    \/ \E a \in ArgsInputs : loadAPIGroupBuilders(a) /\ UNCHANGED outsideOptions
    \/ rangeArgs /\ UNCHANGED outsideOptions
    \/ checkBuilders /\ UNCHANGED outsideOptions
    \/ installSchemas /\ UNCHANGED outsideOptions

SpecOptions == InitOptions /\ [][NextOptions]_vars

-----------------------------------------------------------------------------
(* Helpers of the properties *)

\* arr without its element at 0-based position i
Without(arr, i) == [k \in 1..(Len(arr) - 1) |-> IF k <= i THEN arr[k] ELSE arr[k + 1]]

Positions(arr) == 0..(Len(arr) - 1)

\* how many times x occurs in arr
Count(arr, x) == Cardinality({k \in DOMAIN arr : arr[k] = x})

Elements(arr) == {arr[k] : k \in DOMAIN arr}

SessionActive == IsDefined(editIndex) /\ IsDefined(originalVariableState)

-----------------------------------------------------------------------------
(* C1: no two variables of the collection have the same name, whatever     *)
(* handlers ran, list handlers during an edit session included.            *)

C1_UniqueNames == Cardinality(Names(variables)) = Len(variables)

(* C2: delete(n) of a present name yields a collection one shorter, with   *)
(* no variable named n, the remaining variables in their former order.     *)

C2_Delete ==
    [][lastOp'.op = "onDelete" =>
      \A n \in Names(variables) :
          onDelete(n) =>
              /\ Len(variables') = Len(variables) - 1
              /\ n \notin Names(variables')
              /\ \E i \in Positions(variables) : variables' = Without(variables, i)]_vars

(* C3: delete(n), duplicate(n) and beginEdit(n) of an absent name leave    *)
(* the collection unchanged and report NotFound; beginEdit(n) starts no    *)
(* session.                                                                *)

C3_NotFound ==
    [][lastOp'.op \in {"onDelete", "onDuplicated", "onEdit"} =>
      \A n \in Identifiers \ Names(variables) :
          /\ onDelete(n) \/ onDuplicated(n) \/ onEdit(n) =>
                /\ variables' = variables
                /\ console' = VariableNotFound
          /\ onEdit(n) =>
                /\ editIndex' = editIndex
                /\ originalVariableState' = originalVariableState]_vars

C3_Witness ==
    /\ lastOp.op = "onEdit"
    /\ console = VariableNotFound
    /\ variables # <<>>
    /\ ~IsDefined(editIndex)

(* C4: duplicate(n) of a present name yields a collection one longer; the  *)
(* new element sits immediately after the original, equals it in           *)
(* everything except name, and has a name no variable had before; the      *)
(* variables that were there keep their relative order.                    *)

C4_Duplicate ==
    [][lastOp'.op = "onDuplicated" =>
      \A n \in Names(variables) :
          onDuplicated(n) =>
              /\ Len(variables') = Len(variables) + 1
              /\ \E i \in Positions(variables) :
                    LET original == At(variables, i)
                        clone == At(variables', i + 1)
                    IN /\ original.state.name = n
                       /\ clone.cls = original.cls
                       /\ clone.state.label = original.state.label
                       /\ clone.state.type = original.state.type
                       /\ clone.state.config = original.state.config
                       /\ clone.state.name \notin Names(variables)
                       /\ Without(variables', i + 1) = variables]_vars

C4_Witness ==
    /\ lastOp.op = "onDuplicated"
    /\ console = ""
    /\ Len(variables) = 3
    /\ At(variables, 0).state.name = "a_1"
    /\ At(variables, 1).state.name = "copy_of_a_1"
    /\ At(variables, 2).state.name = "a"

(* C5: the name duplicate(n) gives is copy_of_<n> when no variable has it, *)
(* and otherwise copy_of_<n>_<k> for the smallest k >= 1 that no variable  *)
(* has; with foo and copy_of_foo present it is copy_of_foo_1.              *)

C5_CopyName ==
    [][lastOp'.op = "onDuplicated" =>
      \A n \in Names(variables) :
          onDuplicated(n) =>
              LET base == "copy_of_" \o n
                  numbered(k) == base \o "_" \o ToString(k)
                  given == Names(variables') \ Names(variables)
              IN IF base \notin Names(variables)
                 THEN given = {base}
                 ELSE \E k \in 1..(Len(variables) + 1) :
                         /\ given = {numbered(k)}
                         /\ numbered(k) \notin Names(variables)
                         /\ \A j \in 1..(k - 1) : numbered(j) \in Names(variables)]_vars

\* the copy counter passes a number that is free again and stops at the smallest
C5_Witness ==
    /\ lastOp.op = "onDuplicated"
    /\ console = ""
    /\ Names(variables) = {"a", "copy_of_a", "copy_of_a_1", "copy_of_a_2"}
    /\ At(variables, 1).state.name = "copy_of_a_1"

(* C6: reorder(i, j) with both indices in range is a permutation: the same *)
(* multiset of variables, the element that was at i now at j, the others   *)
(* in their former order; reorder(i, i) changes nothing.                   *)

C6_Reorder ==
    [][lastOp'.op = "onOrderChanged" =>
      \A i \in Positions(variables), j \in Positions(variables) :
          onOrderChanged(i, j) =>
              /\ Len(variables') = Len(variables)
              /\ \A x \in Elements(variables) \cup Elements(variables') :
                    Count(variables', x) = Count(variables, x)
              /\ At(variables', j) = At(variables, i)
              /\ Without(variables', j) = Without(variables, i)
              /\ (i = j => variables' = variables)]_vars

C6_Witness ==
    /\ lastOp.op = "onOrderChanged"
    /\ console = ""
    /\ Len(variables) = 4
    /\ At(variables, 0).state.name = "copy_of_a_2"
    /\ At(variables, 3).state.name = "a"

(* C7: reorder with an index outside [0, len), on an empty collection too, *)
(* reports an invalid index and leaves the collection unchanged.           *)

C7_InvalidIndex ==
    [][lastOp'.op = "onOrderChanged" =>
      \A i \in Indices, j \in Indices :
          (i \notin Positions(variables) \/ j \notin Positions(variables))
          /\ onOrderChanged(i, j) =>
              /\ variables' = variables
              /\ console' = InvalidIndex]_vars

C7_Witness ==
    /\ lastOp.op = "onOrderChanged"
    /\ console = InvalidIndex
    /\ Len(variables) >= 2

(* C8: beginEdit(n) on a variable of an editable kind followed at once by  *)
(* discard() leaves the collection as it was before beginEdit: beginEdit   *)
(* does not touch it, and the discard that follows it restores every       *)
(* variable to the state it has.                                           *)

C8_EditThenDiscard ==
    [][/\ lastOp'.op = "onEdit" =>
             (\A n \in Names(variables) : onEdit(n) => variables' = variables)
       /\ (/\ lastOp'.op = "onDiscardChanges"
           /\ onDiscardChanges
           /\ SessionActive
           /\ sinceEdit = "nothing"
           /\ isEditableVariableType(Get(originalVariableState).type))
          => variables' = variables]_vars

C8_Witness ==
    /\ lastOp = [op |-> "onDiscardChanges", since |-> "nothing"]
    /\ editIndex = Undefined
    /\ originalVariableState = Undefined
    /\ Len(variables) = 2
    /\ \A i \in Positions(variables) :
          /\ isEditableVariableType(At(variables, i).state.type)
          /\ At(variables, i).state.config = UserConfig

(* C9: when the session was opened on a variable of an editable kind other *)
(* than ad-hoc and only changeType calls ran since, discard() leaves at    *)
(* editIndex a variable with the snapshot's name, label, type and          *)
(* configuration, and leaves every other position as it was.               *)

C9_DiscardRestores ==
    [][(/\ lastOp'.op = "onDiscardChanges"
        /\ onDiscardChanges
        /\ SessionActive
        /\ sinceEdit \in {"nothing", "typeChange"}
        /\ isEditableVariableType(Get(originalVariableState).type)
        /\ Get(originalVariableState).type # "adhoc")
       => /\ Len(variables') = Len(variables)
          /\ At(variables', Get(editIndex)).state = Get(originalVariableState)
          /\ \A i \in Positions(variables) \ {Get(editIndex)} :
                At(variables', i) = At(variables, i)]_vars

C9_Witness ==
    /\ lastOp = [op |-> "onDiscardChanges", since |-> "typeChange"]
    /\ editIndex = Undefined
    /\ Len(variables) = 2
    /\ \A i \in Positions(variables) :
          /\ At(variables, i).state.type = "query"
          /\ At(variables, i).state.config = UserConfig

(* C10: discard() called in an active session leaves no session active:    *)
(* editIndex and the snapshot are both cleared, whatever ran since         *)
(* beginEdit.                                                              *)

C10_DiscardClears ==
    [][(lastOp'.op = "onDiscardChanges" /\ onDiscardChanges /\ SessionActive)
       => editIndex' = Undefined /\ originalVariableState' = Undefined]_vars

(* C11: goBack() ends the edit session and leaves the collection as it is, *)
(* so a changeType(t) made in the session stays: straight after            *)
(* beginEdit(n) and changeType(t) the variable at the edited index has     *)
(* type t, for every kind t the picker offers, and goBack() then clears    *)
(* editIndex without touching the collection.                              *)

C11_GoBackKeepsAnyType ==
    [][/\ (lastOp'.op = "onTypeChange"
           /\ SessionActive
           /\ sinceEdit \in {"nothing", "typeChange"})
          => \A t \in TypeInputs :
                onTypeChange(t) => At(variables', Get(editIndex)).state.type = t
       /\ (lastOp'.op = "onGoBack" /\ onGoBack)
          => variables' = variables /\ editIndex' = Undefined]_vars

(* C11, for the kinds other than ad-hoc: straight after beginEdit(n) and   *)
(* changeType(t) the variable at the edited index has type t, and goBack() *)
(* then clears editIndex without touching the collection. A changeType to  *)
(* the ad-hoc kind leaves the variable with the type it had.               *)

C11_GoBackKeeps ==
    [][/\ (lastOp'.op = "onTypeChange"
           /\ SessionActive
           /\ sinceEdit \in {"nothing", "typeChange"})
          => \A t \in TypeInputs :
                onTypeChange(t) =>
                    IF t = "adhoc"
                    THEN At(variables', Get(editIndex)) = At(variables, Get(editIndex))
                    ELSE At(variables', Get(editIndex)).state.type = t
       /\ (lastOp'.op = "onGoBack" /\ onGoBack)
          => variables' = variables /\ editIndex' = Undefined]_vars

\* back from a session in which a query variable was made a textbox
C11_Witness ==
    /\ lastOp.op = "onGoBack"
    /\ editIndex = Undefined
    /\ IsDefined(originalVariableState)
    /\ Get(originalVariableState).type = "query"
    /\ \E i \in Positions(variables) :
          /\ At(variables, i).state.name = Get(originalVariableState).name
          /\ At(variables, i).state.type = "textbox"

(* C12: discard() called while no edit session is active (none was ever    *)
(* begun, or the last one was ended by goBack() or by an earlier           *)
(* discard()) leaves the collection unchanged; in particular a discard()   *)
(* that follows goBack() does not roll back what goBack() accepted.        *)

C12_DiscardNoSession ==
    [][(/\ lastOp'.op = "onDiscardChanges"
        /\ onDiscardChanges
        /\ (~IsDefined(editIndex) \/ lastOp.op = "onGoBack"))
       => variables' = variables]_vars

\* a discard after goBack: the snapshot of the query variable is still held,
\* and the variable is the textbox the session made of it
C12_Witness ==
    /\ lastOp = [op |-> "onDiscardChanges", since |-> "none"]
    /\ editIndex = Undefined
    /\ IsDefined(originalVariableState)
    /\ Get(originalVariableState).type = "query"
    /\ \E i \in Positions(variables) :
          /\ At(variables, i).state.name = Get(originalVariableState).name
          /\ At(variables, i).state.type = "textbox"

(* C13: in an active session, changeType(newType) for a kind other than    *)
(* ad-hoc replaces the variable at editIndex with a new variable of        *)
(* newType that has the same name and label and the kind's default         *)
(* configuration; the length of the collection and every other position    *)
(* stay as they were.                                                      *)

C13_TypeChange ==
    [][(lastOp'.op = "onTypeChange" /\ SessionActive)
       => \A t \in TypeInputs \ {"adhoc"} :
             onTypeChange(t) =>
                 LET i == Get(editIndex) IN
                 /\ Len(variables') = Len(variables)
                 /\ HasIndex(variables', i)
                 /\ At(variables', i) =
                       SceneVariable(VariableState(At(variables, i).state.name,
                                                   At(variables, i).state.label,
                                                   t, DefaultConfig(t)))
                 /\ \A j \in Positions(variables) \ {i} :
                       At(variables', j) = At(variables, j)]_vars

(* C14: changeType to the ad-hoc filter kind leaves the collection and the *)
(* session (editIndex and the snapshot) as they were; likewise a discard() *)
(* whose snapshot is of the ad-hoc kind does not replace the variable at   *)
(* editIndex: the collection is as it was.                                 *)

C14_AdHocNotReplaced ==
    [][/\ (lastOp'.op = "onTypeChange" /\ onTypeChange("adhoc"))
          => /\ variables' = variables
             /\ editIndex' = editIndex
             /\ originalVariableState' = originalVariableState
       /\ (/\ lastOp'.op = "onDiscardChanges"
           /\ onDiscardChanges
           /\ SessionActive
           /\ Get(originalVariableState).type = "adhoc")
          => variables' = variables]_vars

\* changeType to ad-hoc has just run on the query variable being edited, which
\* is still the variable of the snapshot
C14_Witness ==
    /\ lastOp.op = "onTypeChange"
    /\ console = ""
    /\ sinceEdit = "typeChange"
    /\ SessionActive
    /\ HasIndex(variables, Get(editIndex))
    /\ At(variables, Get(editIndex)).state = Get(originalVariableState)
    /\ Get(originalVariableState).type = "query"

(* C15: changeType called while no edit session is active (editIndex is    *)
(* undefined) reports that the variable was not found and changes neither  *)
(* the collection nor the session state.                                   *)

C15_TypeChangeNoSession ==
    [][(lastOp'.op = "onTypeChange" /\ ~IsDefined(editIndex))
       => \A t \in TypeInputs :
             onTypeChange(t) =>
                 /\ console' = VariableNotFound
                 /\ variables' = variables
                 /\ editIndex' = editIndex
                 /\ originalVariableState' = originalVariableState]_vars

\* changeType has just run with no session, on a collection that has a variable
C15_Witness ==
    /\ lastOp.op = "onTypeChange"
    /\ console = VariableNotFound
    /\ editIndex = Undefined
    /\ variables # <<>>

(* C16: there is one edit session at most: beginEdit(m) on a present name  *)
(* while a session is active makes editIndex the position of m and the     *)
(* snapshot the state of m, and leaves the collection as it is (the        *)
(* variable of the former session is not restored); a discard() changes    *)
(* the position editIndex alone, to the snapshot then held.                *)

C16_OneSession ==
    [][/\ (lastOp'.op = "onEdit" /\ SessionActive)
          => \A m \in Names(variables) :
                onEdit(m) =>
                    /\ variables' = variables
                    /\ \E i \in Positions(variables) :
                          /\ At(variables, i).state.name = m
                          /\ editIndex' = Some(i)
                          /\ originalVariableState' = Some(At(variables, i).state)
       /\ (lastOp'.op = "onDiscardChanges" /\ onDiscardChanges /\ SessionActive)
          => /\ Len(variables') = Len(variables)
             /\ \A j \in Positions(variables) :
                   \/ At(variables', j) = At(variables, j)
                   \/ /\ j = Get(editIndex)
                      /\ At(variables', j).state = Get(originalVariableState)]_vars

\* beginEdit on the variable at 1 in a session that had made a textbox of
\* the variable at 0, which stays a textbox
C16_Witness ==
    /\ lastOp = [op |-> "onEdit", since |-> "typeChange"]
    /\ console = ""
    /\ Len(variables) = 2
    /\ editIndex = Some(1)
    /\ originalVariableState = Some(At(variables, 1).state)
    /\ At(variables, 0).state.type = "textbox"
    /\ At(variables, 0).state.config = DefaultConfig("textbox")

(* C17: after duplicate(n) the clone and the original are independent      *)
(* values: duplicate leaves the original as it was, with the clone a       *)
(* variable of its own next to it, and a changeType or a discard changes   *)
(* the state of one variable of the collection at most, so a change to the *)
(* clone is never a change to the original, nor the other way round.       *)

C18_LoopBound ==
    \A n \in Names(variables) :
        /\ copyNumberFrom(variables, n, 0) <= Len(variables)
        /\ newName(variables, n) = copyName(n, copyNumberFrom(variables, n, 0))

\* the clone of a was named after two increments
C18_Witness ==
    /\ lastOp.op = "onDuplicated"
    /\ console = ""
    /\ Len(variables) = 4
    /\ At(variables, 0).state.name = "a"
    /\ At(variables, 1).state.name = "copy_of_a_2"
    /\ copyNumberFrom(variables, "a", 0) = 3

(* C19: in every reachable state with an active session, editIndex is an   *)
(* index of the collection and the variable at editIndex is the one named  *)
(* in the beginEdit call that opened the session (the name the snapshot    *)
(* has), whatever delete, duplicate and reorder calls ran in the session.  *)

C19_EditIndexValid ==
    SessionActive =>
        /\ HasIndex(variables, Get(editIndex))
        /\ At(variables, Get(editIndex)).state.name = Get(originalVariableState).name

(* C20: discard() rolls back the variable the session was opened on and no *)
(* other: every variable whose name is not the one given to beginEdit is   *)
(* in the collection after discard() with the state it had before, also    *)
(* when delete, duplicate or reorder ran between beginEdit and discard.    *)

C20_DiscardOnlyEdited ==
    [][(lastOp'.op = "onDiscardChanges" /\ onDiscardChanges /\ SessionActive)
       => \A i \in Positions(variables) :
             At(variables, i).state.name # Get(originalVariableState).name
                => At(variables, i) \in Elements(variables')]_vars

(* C21: delete, duplicate and reorder never change the session state       *)
(* (editIndex and the snapshot); beginEdit and goBack never change the     *)
(* collection; the collection is changed by delete, duplicate, reorder,    *)
(* changeType and discard alone.                                           *)

C21_Frame ==
    [][/\ lastOp'.op \in {"onDelete", "onDuplicated", "onOrderChanged"}
          => /\ editIndex' = editIndex
             /\ originalVariableState' = originalVariableState
       /\ lastOp'.op \in {"onEdit", "onGoBack"} => variables' = variables
       /\ variables' # variables
          => lastOp'.op \in {"onDelete", "onDuplicated", "onOrderChanged",
                             "onTypeChange", "onDiscardChanges"}]_vars

\* a reorder has run in a session: the session state is that of the variable the
\* session was opened on, which now sits at the other position
C21_Witness ==
    /\ lastOp.op = "onOrderChanged"
    /\ console = ""
    /\ sinceEdit = "other"
    /\ SessionActive
    /\ Len(variables) = 2
    /\ At(variables, Get(editIndex)).state.name # Get(originalVariableState).name
    /\ Get(originalVariableState).name \in Names(variables)

(* C22: after a click on the refresh button the loading flag is true for   *)
(* at least LOADING_SPINNER_DURATION ms, and while the fetch of that click *)
(* is not done; it is false once the fetch has settled, fulfilled or       *)
(* rejected, the delay has elapsed and the callback has run.               *)

C22_SpinnerShown ==
    /\ \A i \in DOMAIN refreshes :
          (\/ now < refreshes[i].clickedAt + LOADING_SPINNER_DURATION
           \/ refreshes[i].fetch = "pending")
          => loadingContactPoints
    /\ (refreshes # <<>> /\ \A i \in DOMAIN refreshes : refreshes[i].finallyRan)
          => ~loadingContactPoints

(* C23: with a refresh clicked while an earlier one is still pending, the  *)
(* loading flag is true in every state in which a refresh is in flight:    *)
(* the completion of an earlier refresh never clears the flag under a      *)
(* later one.                                                              *)

C23_LoadingWhileInFlight ==
    (\E i \in DOMAIN refreshes : inFlight(refreshes[i])) => loadingContactPoints

(* C24: a click on the return-to-previous widget first pushes href to the  *)
(* location service, with the return-to-previous state still set, and then *)
(* clears that state; a dismiss clears it and pushes nothing; when either  *)
(* handler has returned the state is cleared.                              *)

C24_ClickThenClear ==
    [][/\ (handleOnClick /\ handlerAt = Undefined)
          => /\ history' = Append(history, Get(returnToPrevious).href)
             /\ returnToPrevious' = returnToPrevious
             /\ handlerAt' # Undefined
       /\ (handleOnClick /\ handlerAt # Undefined)
          => /\ returnToPrevious' = Undefined
             /\ history' = history
             /\ serviceCalls' = <<PushCall(Get(handlerAt)), ClearCall>>
             /\ handlerAt' = Undefined
       /\ handleOnDismiss
          => /\ returnToPrevious' = Undefined
             /\ history' = history
             /\ serviceCalls' = <<ClearCall>>]_vars

\* a second click has returned: two locations pushed, the state cleared
C24_Witness ==
    /\ handlerAt = Undefined
    /\ returnToPrevious = Undefined
    /\ Len(history) = 2
    /\ serviceCalls = <<PushCall(history[2]), ClearCall>>

(* C25: loadAPIGroupBuilders(args) returns an error when args is empty or  *)
(* has a group name other than example.grafana.app,                        *)
(* featuretoggle.grafana.app and testdata.datasource.grafana.app; when it  *)
(* returns nil, builders holds one builder for each argument, in the order *)
(* of the arguments, and InstallSchema has succeeded on each of them.      *)

C25_LoadBuilders ==
    IsDefined(returned) =>
        /\ (args = <<>> \/ \E i \in DOMAIN args :
                               args[i] \notin {"example.grafana.app",
                                               "featuretoggle.grafana.app",
                                               "testdata.datasource.grafana.app"})
              => Get(returned) # Nil
        /\ Get(returned) = Nil
              => /\ Len(builders) = Len(args)
                 /\ \A i \in DOMAIN args : builders[i].group = args[i]
                 /\ installed = builders

\* nil was returned for two different groups
C25_Witness ==
    /\ returned = Some(Nil)
    /\ Len(args) = 2
    /\ args[1] = "testdata.datasource.grafana.app"
    /\ args[2] = "example.grafana.app"
    /\ Len(installed) = 2

====
